---- MODULE Spec2Model ----
(***************************************************************************)
(* OwningList (src/src/lib.rs): a doubly linked list whose forward links   *)
(* are owning boxes and whose back links are raw pointers.  Nodes are      *)
(* addressed by the raw pointer (handle) prepend returns.                  *)
(*                                                                         *)
(* The heap is modelled explicitly: a node is its address, next/prev/value *)
(* are the fields stored at that address, and a Box is the address of an   *)
(* allocated node.  Option::None and a null link are both written None.    *)
(***************************************************************************)
EXTENDS Integers, Sequences, FiniteSets, TLC

\* ---- bounds ----
MaxNodes == 3      \* number of heap addresses a node can be allocated at
MaxValue == 2      \* payload values are 1..MaxValue
MaxRuns == 2       \* complete iter() runs remembered for comparison

None == 0
Addr == 1..MaxNodes
Values == 1..MaxValue

VARIABLES
    head,       \* OwningList.0 : Option<Box<Node>>
    next,       \* Node.next    : Option<Box<Node>>, per address
    prev,       \* Node.prev    : Option<NonNull<Node>>, per address
    value,      \* Node.value, per address (None where nothing is stored)
    heap,       \* addresses currently allocated
    held,       \* boxes returned by remove_ptr that the caller still owns
    mode,       \* "list" | "iter" (a ListIter borrows the list)
                \* | "into" (the list was moved into a ListIntoIter) | "gone"
                \* | "violated" (remove_ptr was called with a stale handle)
    iter_next,  \* ListIter.next: the Option slot it refers to
                \*   (None = &self.0, n = &n.next)
    into_next,  \* ListIntoIter.next : Option<Box<Node>>
    out,        \* values the running iterator has yielded so far
    panicked,   \* an unwrap() failed
    \* ---- history of the last call (observation only) ----
    op,         \* name of the last operation
    argH,       \* its handle argument (None if it has none)
    argV,       \* its value argument (None if it has none)
    ret,        \* what it returned (handle, box, yielded value; None = None)
    pre,        \* head-to-tail node sequence just before the call
    snap,       \* what iter() collected just before into_iter()
    live,       \* handles returned by prepend and not yet given to remove_ptr
    given,      \* the value passed to the prepend that returned each handle
    seen,       \* what the complete iter() runs since the last modification
                \* of the list yielded, one entry per run (first MaxRuns)
    mru         \* live handles, most recently prepended or promoted first

vars == <<head, next, prev, value, heap, held, mode, iter_next, into_next,
          out, panicked, op, argH, argV, ret, pre, snap, live, given,
          seen, mru>>

\* The list and the heap it lives in, as one value the operations transform.
Mem == [head |-> head, next |-> next, prev |-> prev, value |-> value,
        heap |-> heap]

\* Deallocation of the nodes in S (what is stored there is no longer a node).
Free(M, S) ==
    [M EXCEPT !.heap = @ \ S,
              !.next = [x \in Addr |-> IF x \in S THEN None ELSE @[x]],
              !.prev = [x \in Addr |-> IF x \in S THEN None ELSE @[x]],
              !.value = [x \in Addr |-> IF x \in S THEN None ELSE @[x]]]

\* The nodes a box owns: the node itself and everything its next chain owns.
RECURSIVE Owned(_, _, _)
Owned(M, n, fuel) ==
    IF n = None \/ fuel = 0 THEN {}
    ELSE {n} \cup Owned(M, M.next[n], fuel - 1)

\* Dropping a Box<Node> drops the node and, through next, the chain it owns.
DropChain(M, n) == Free(M, Owned(M, n, MaxNodes))

\* prepend that forgets to set the old head's back-reference
prepend_no_backref(M, v, a) ==
    [m |-> [head |-> a,
            next |-> [M.next EXCEPT ![a] = M.head],
            prev |-> [M.prev EXCEPT ![a] = None],
            value |-> [M.value EXCEPT ![a] = v],
            heap |-> M.heap \cup {a}],
     ret |-> a]

\* prepend that links the new node behind the old head instead of before it
prepend_behind_head(M, v, a) ==
    IF M.head = None
    THEN [m |-> [head |-> a,
                 next |-> [M.next EXCEPT ![a] = None],
                 prev |-> [M.prev EXCEPT ![a] = None],
                 value |-> [M.value EXCEPT ![a] = v],
                 heap |-> M.heap \cup {a}],
          ret |-> a]
    ELSE LET second == M.next[M.head]
             next1 == [M.next EXCEPT ![a] = second, ![M.head] = a]
             prev1 == [M.prev EXCEPT ![a] = M.head]
             prev2 == IF second # None THEN [prev1 EXCEPT ![second] = a]
                      ELSE prev1
         IN [m |-> [head |-> M.head, next |-> next1, prev |-> prev2,
                    value |-> [M.value EXCEPT ![a] = v],
                    heap |-> M.heap \cup {a}],
             ret |-> a]

\* ---- OwningList::prepend (lib.rs 30-44); a is the address Box::new returns
prepend(M, v, a) ==
    LET list_tail == M.head                                  \* self.0.take()
        next1 == [M.next EXCEPT ![a] = list_tail]
        prev1 == [M.prev EXCEPT ![a] = None]
        val1  == [M.value EXCEPT ![a] = v]
        prev2 == IF next1[a] # None
                 THEN [prev1 EXCEPT ![next1[a]] = a]   \* list_tail.prev = head_ptr
                 ELSE prev1
    IN [m |-> [head |-> a, next |-> next1, prev |-> prev2, value |-> val1,
               heap |-> M.heap \cup {a}],
        ret |-> a]

\* remove_to_owned that never re-attaches the successor to the predecessor
remove_to_owned_no_splice(M, item) ==
    IF M.prev[item] # None
    THEN LET prev_ptr == M.prev[item]
             prevA == [M.prev EXCEPT ![item] = None]
             node  == M.next[prev_ptr]
             nextA == [M.next EXCEPT ![prev_ptr] = None]
             old_next == nextA[item]
             nextB == [nextA EXCEPT ![item] = None]
         IN IF old_next # None
            THEN [m |-> [M EXCEPT !.prev = [prevA EXCEPT ![old_next] = prev_ptr],
                                  !.next = nextB],
                  ret |-> node]
            ELSE [m |-> [M EXCEPT !.prev = prevA, !.next = nextB],
                  ret |-> node]
    ELSE LET nxt == M.next[item]
             nextA == [M.next EXCEPT ![item] = None]
         IN IF nxt # None
            THEN [m |-> [M EXCEPT !.next = nextA,
                                  !.prev = [M.prev EXCEPT ![nxt] = None],
                                  !.head = nxt],
                  ret |-> M.head]
            ELSE [m |-> [M EXCEPT !.next = nextA, !.head = None],
                  ret |-> M.head]

\* remove_to_owned whose head branch always empties the list (self.0.take())
remove_to_owned_head_take(M, item) ==
    IF M.prev[item] # None
    THEN LET prev_ptr == M.prev[item]
             prevA == [M.prev EXCEPT ![item] = None]
             node  == M.next[prev_ptr]
             nextA == [M.next EXCEPT ![prev_ptr] = None]
             old_next == nextA[item]
             nextB == [nextA EXCEPT ![item] = None]
         IN IF old_next # None
            THEN [m |-> [M EXCEPT !.prev = [prevA EXCEPT ![old_next] = prev_ptr],
                                  !.next = [nextB EXCEPT ![prev_ptr] = old_next]],
                  ret |-> node]
            ELSE [m |-> [M EXCEPT !.prev = prevA, !.next = nextB],
                  ret |-> node]
    ELSE [m |-> [M EXCEPT !.head = None], ret |-> M.head]

\* remove_to_owned that hands back the predecessor's box instead of the
\* box stored in the predecessor's forward link
remove_to_owned_wrong_box(M, item) ==
    IF M.prev[item] # None
    THEN LET prev_ptr == M.prev[item]
             prevA == [M.prev EXCEPT ![item] = None]
             nextA == [M.next EXCEPT ![prev_ptr] = None]
             old_next == nextA[item]
             nextB == [nextA EXCEPT ![item] = None]
         IN IF old_next # None
            THEN [m |-> [M EXCEPT !.prev = [prevA EXCEPT ![old_next] = prev_ptr],
                                  !.next = [nextB EXCEPT ![prev_ptr] = old_next]],
                  ret |-> prev_ptr]
            ELSE [m |-> [M EXCEPT !.prev = prevA, !.next = nextB],
                  ret |-> prev_ptr]
    ELSE LET nxt == M.next[item]
             nextA == [M.next EXCEPT ![item] = None]
         IN IF nxt # None
            THEN [m |-> [M EXCEPT !.next = nextA,
                                  !.prev = [M.prev EXCEPT ![nxt] = None],
                                  !.head = nxt],
                  ret |-> M.head]
            ELSE [m |-> [M EXCEPT !.next = nextA, !.head = None],
                  ret |-> M.head]

\* remove_to_owned that splices by overwriting prev.next and only then takes
\* the box out of prev.next: at the tail there is nothing left to take
remove_to_owned_take_after_splice(M, item) ==
    IF M.prev[item] # None
    THEN LET prev_ptr == M.prev[item]
             prevA == [M.prev EXCEPT ![item] = None]
             old_next == M.next[item]
             nextA == [M.next EXCEPT ![item] = None, ![prev_ptr] = None]
         IN IF old_next # None
            THEN [m |-> [M EXCEPT !.prev = [prevA EXCEPT ![old_next] = prev_ptr],
                                  !.next = nextA],
                  ret |-> old_next]
            ELSE [m |-> [M EXCEPT !.prev = prevA, !.next = nextA],
                  ret |-> None]
    ELSE LET nxt == M.next[item]
             nextA == [M.next EXCEPT ![item] = None]
         IN IF nxt # None
            THEN [m |-> [M EXCEPT !.next = nextA,
                                  !.prev = [M.prev EXCEPT ![nxt] = None],
                                  !.head = nxt],
                  ret |-> M.head]
            ELSE [m |-> [M EXCEPT !.next = nextA, !.head = None],
                  ret |-> M.head]

\* remove_to_owned that also takes the predecessor's own back-reference
remove_to_owned_clear_prev_prev(M, item) ==
    IF M.prev[item] # None
    THEN LET prev_ptr == M.prev[item]
             prevA == [M.prev EXCEPT ![item] = None, ![prev_ptr] = None]
             node  == M.next[prev_ptr]
             nextA == [M.next EXCEPT ![prev_ptr] = None]
             old_next == nextA[item]
             nextB == [nextA EXCEPT ![item] = None]
         IN IF old_next # None
            THEN [m |-> [M EXCEPT !.prev = [prevA EXCEPT ![old_next] = prev_ptr],
                                  !.next = [nextB EXCEPT ![prev_ptr] = old_next]],
                  ret |-> node]
            ELSE [m |-> [M EXCEPT !.prev = prevA, !.next = nextB],
                  ret |-> node]
    ELSE LET nxt == M.next[item]
             nextA == [M.next EXCEPT ![item] = None]
         IN IF nxt # None
            THEN [m |-> [M EXCEPT !.next = nextA,
                                  !.prev = [M.prev EXCEPT ![nxt] = None],
                                  !.head = nxt],
                  ret |-> M.head]
            ELSE [m |-> [M EXCEPT !.next = nextA, !.head = None],
                  ret |-> M.head]

\* remove_to_owned whose head branch leaves the new head's back-reference
remove_to_owned_keep_backref(M, item) ==
    IF M.prev[item] # None
    THEN LET prev_ptr == M.prev[item]
             prevA == [M.prev EXCEPT ![item] = None]
             node  == M.next[prev_ptr]
             nextA == [M.next EXCEPT ![prev_ptr] = None]
             old_next == nextA[item]
             nextB == [nextA EXCEPT ![item] = None]
         IN IF old_next # None
            THEN [m |-> [M EXCEPT !.prev = [prevA EXCEPT ![old_next] = prev_ptr],
                                  !.next = [nextB EXCEPT ![prev_ptr] = old_next]],
                  ret |-> node]
            ELSE [m |-> [M EXCEPT !.prev = prevA, !.next = nextB],
                  ret |-> node]
    ELSE LET nxt == M.next[item]
             nextA == [M.next EXCEPT ![item] = None]
         IN IF nxt # None
            THEN [m |-> [M EXCEPT !.next = nextA, !.head = nxt],
                  ret |-> M.head]
            ELSE [m |-> [M EXCEPT !.next = nextA, !.head = None],
                  ret |-> M.head]

\* remove_to_owned whose head branch first checks that item is the head
\* and otherwise returns None and leaves the list alone
remove_to_owned_checked(M, item) ==
    IF M.prev[item] # None
    THEN LET prev_ptr == M.prev[item]
             prevA == [M.prev EXCEPT ![item] = None]
             node  == M.next[prev_ptr]
             nextA == [M.next EXCEPT ![prev_ptr] = None]
             old_next == nextA[item]
             nextB == [nextA EXCEPT ![item] = None]
         IN IF old_next # None
            THEN [m |-> [M EXCEPT !.prev = [prevA EXCEPT ![old_next] = prev_ptr],
                                  !.next = [nextB EXCEPT ![prev_ptr] = old_next]],
                  ret |-> node]
            ELSE [m |-> [M EXCEPT !.prev = prevA, !.next = nextB],
                  ret |-> node]
    ELSE IF M.head # item
         THEN [m |-> M, ret |-> None]
         ELSE LET nxt == M.next[item]
                  nextA == [M.next EXCEPT ![item] = None]
              IN IF nxt # None
                 THEN [m |-> [M EXCEPT !.next = nextA,
                                       !.prev = [M.prev EXCEPT ![nxt] = None],
                                       !.head = nxt],
                       ret |-> M.head]
                 ELSE [m |-> [M EXCEPT !.next = nextA, !.head = None],
                       ret |-> M.head]

\* ---- OwningList::remove_to_owned (lib.rs 67-87)
remove_to_owned(M, item) ==
    IF M.prev[item] # None
    THEN \* not the head
         LET prev_ptr == M.prev[item]
             prevA == [M.prev EXCEPT ![item] = None]      \* item.prev.take()
             node  == M.next[prev_ptr]                    \* prev.next.take()
             nextA == [M.next EXCEPT ![prev_ptr] = None]
             old_next == nextA[item]                      \* item.next.take()
             nextB == [nextA EXCEPT ![item] = None]
         IN IF old_next # None
            THEN [m |-> [M EXCEPT !.prev = [prevA EXCEPT ![old_next] = prev_ptr],
                                  !.next = [nextB EXCEPT ![prev_ptr] = old_next]],
                  ret |-> node]
            ELSE [m |-> [M EXCEPT !.prev = prevA, !.next = nextB],
                  ret |-> node]
    ELSE \* is the head
         LET nxt == M.next[item]                          \* item.next.take()
             nextA == [M.next EXCEPT ![item] = None]
         IN IF nxt # None
            THEN [m |-> [M EXCEPT !.next = nextA,
                                  !.prev = [M.prev EXCEPT ![nxt] = None],
                                  !.head = nxt],          \* self.0.replace(next)
                  ret |-> M.head]
            ELSE [m |-> [M EXCEPT !.next = nextA, !.head = None],
                  ret |-> M.head]                         \* self.0.take()

\* ---- OwningList::remove_ptr (lib.rs 62-65)
remove_ptr(M, ptr) == remove_to_owned(M, ptr)

\* move_to_head that never links the old chain behind the promoted node
move_to_head_no_link(M, ptr) ==
    IF M.head # None /\ ptr = M.head
    THEN [m |-> M, panic |-> FALSE]
    ELSE LET r == remove_ptr(M, ptr)
         IN IF r.ret = None
            THEN [m |-> r.m, panic |-> TRUE]
            ELSE [m |-> [r.m EXCEPT !.head = r.ret], panic |-> FALSE]

\* move_to_head that never stores the promoted node in self.0
move_to_head_no_replace(M, ptr) ==
    IF M.head # None /\ ptr = M.head
    THEN [m |-> M, panic |-> FALSE]
    ELSE LET r == remove_ptr(M, ptr)
         IN IF r.ret = None
            THEN [m |-> r.m, panic |-> TRUE]
            ELSE LET hd == r.ret
                     next1 == [r.m.next EXCEPT ![hd] = r.m.head]
                     prev1 == IF next1[hd] # None
                              THEN [r.m.prev EXCEPT ![next1[hd]] = ptr]
                              ELSE r.m.prev
                 IN [m |-> [r.m EXCEPT !.head = None, !.next = next1,
                                       !.prev = prev1],
                     panic |-> FALSE]

\* move_to_head whose head test takes self.0 instead of borrowing it
move_to_head_take_head(M, ptr) ==
    IF M.head # None /\ ptr = M.head
    THEN [m |-> [M EXCEPT !.head = None], panic |-> FALSE]
    ELSE LET r == remove_ptr(M, ptr)
         IN IF r.ret = None
            THEN [m |-> r.m, panic |-> TRUE]
            ELSE LET hd == r.ret
                     next1 == [r.m.next EXCEPT ![hd] = r.m.head]
                     prev1 == IF next1[hd] # None
                              THEN [r.m.prev EXCEPT ![next1[hd]] = ptr]
                              ELSE r.m.prev
                 IN [m |-> [r.m EXCEPT !.head = hd, !.next = next1,
                                       !.prev = prev1],
                     panic |-> FALSE]

\* move_to_head that promotes by exchanging the payloads of ptr and the head
move_to_head_swap_values(M, ptr) ==
    IF M.head = None \/ ptr = M.head
    THEN [m |-> M, panic |-> FALSE]
    ELSE [m |-> [M EXCEPT !.value = [@ EXCEPT ![ptr] = M.value[M.head],
                                              ![M.head] = M.value[ptr]]],
          panic |-> FALSE]

\* move_to_head that links the node at the front without detaching it first
move_to_head_no_remove(M, ptr) ==
    IF M.head # None /\ ptr = M.head
    THEN [m |-> M, panic |-> FALSE]
    ELSE LET next1 == [M.next EXCEPT ![ptr] = M.head]
             prev1 == IF next1[ptr] # None
                      THEN [M.prev EXCEPT ![next1[ptr]] = ptr]
                      ELSE M.prev
         IN [m |-> [M EXCEPT !.head = ptr, !.next = next1,
                             !.prev = [prev1 EXCEPT ![ptr] = None]],
             panic |-> FALSE]

\* move_to_head that re-attaches the node behind the current head
move_to_head_behind_head(M, ptr) ==
    IF M.head # None /\ ptr = M.head
    THEN [m |-> M, panic |-> FALSE]
    ELSE LET r == remove_ptr(M, ptr)
         IN IF r.ret = None
            THEN [m |-> r.m, panic |-> TRUE]
            ELSE LET hd == r.ret
                     first == r.m.head
                     second == r.m.next[first]
                     next1 == [r.m.next EXCEPT ![hd] = second, ![first] = hd]
                     prev1 == [r.m.prev EXCEPT ![hd] = first]
                     prev2 == IF second # None
                              THEN [prev1 EXCEPT ![second] = hd]
                              ELSE prev1
                 IN [m |-> [r.m EXCEPT !.next = next1, !.prev = prev2],
                     panic |-> FALSE]

\* ---- OwningList::move_to_head (lib.rs 46-59)
move_to_head(M, ptr) ==
    IF M.head # None /\ ptr = M.head
    THEN [m |-> M, panic |-> FALSE]          \* already at the head
    ELSE LET r == remove_ptr(M, ptr)
         IN IF r.ret = None
            THEN [m |-> r.m, panic |-> TRUE]  \* unwrap() of None
            ELSE LET hd == r.ret
                     next1 == [r.m.next EXCEPT ![hd] = r.m.head]
                     prev1 == IF next1[hd] # None
                              THEN [r.m.prev EXCEPT ![next1[hd]] = ptr]
                              ELSE r.m.prev
                 IN [m |-> [r.m EXCEPT !.head = hd, !.next = next1,
                                       !.prev = prev1],
                     panic |-> FALSE]

\* The Option slot a ListIter refers to: None is &self.0, n is &n.next.
Slot(M, s) == IF s = None THEN M.head ELSE M.next[s]

\* ListIter::next that stops one node early: it reports the end at the tail
ListIter_next_skip_tail(M, s) ==
    LET nx == Slot(M, s)
    IN IF nx # None /\ M.next[nx] # None
       THEN [it |-> nx, ret |-> M.value[nx]]
       ELSE [it |-> s, ret |-> None]

\* ---- ListIter::next (lib.rs 117-125)
ListIter_next(M, s) ==
    LET nx == Slot(M, s)
    IN IF nx # None
       THEN [it |-> nx, ret |-> M.value[nx]]
       ELSE [it |-> s, ret |-> None]

\* iter() followed to its end, as to_vec collects it (lib.rs 89-91, 156-158)
RECURSIVE ListIter_collect(_, _, _)
ListIter_collect(M, s, fuel) ==
    LET r == ListIter_next(M, s)
    IN IF r.ret = None \/ fuel = 0 THEN <<>>
       ELSE <<r.ret>> \o ListIter_collect(M, r.it, fuel - 1)

iter_collect(M) == ListIter_collect(M, None, MaxNodes + 1)

\* ListIntoIter::next that forgets to move next.next into self.next
ListIntoIter_next_no_advance(M, nx) ==
    IF nx # None
    THEN [m |-> Free(M, {nx}), it |-> None, ret |-> M.value[nx]]
    ELSE [m |-> M, it |-> None, ret |-> None]

\* ListIntoIter::next that leaks the box it took instead of dropping it
ListIntoIter_next_leak(M, nx) ==
    IF nx # None
    THEN [m |-> M, it |-> M.next[nx], ret |-> M.value[nx]]
    ELSE [m |-> M, it |-> None, ret |-> None]

\* ---- ListIntoIter::next (lib.rs 141-149): the box taken is dropped after
\* its value and its next have been moved out of it.
ListIntoIter_next(M, nx) ==
    IF nx # None
    THEN [m |-> Free(M, {nx}), it |-> M.next[nx], ret |-> M.value[nx]]
    ELSE [m |-> M, it |-> None, ret |-> None]

\* Head-to-tail walk over the forward links, as node addresses.
RECURSIVE WalkFrom(_, _, _)
WalkFrom(M, n, fuel) ==
    IF n = None \/ fuel = 0 THEN <<>>
    ELSE <<n>> \o WalkFrom(M, M.next[n], fuel - 1)

Walk(M) == WalkFrom(M, M.head, MaxNodes + 1)

Range(s) == {s[i] : i \in 1..Len(s)}
ValuesOf(M, s) == [i \in 1..Len(s) |-> M.value[s[i]]]
Without(s, n) == SelectSeq(s, LAMBDA x : x # n)

\* ---- OwningList::default (lib.rs 12-16) on an empty heap
Init ==
    /\ head = None
    /\ next = [x \in Addr |-> None]
    /\ prev = [x \in Addr |-> None]
    /\ value = [x \in Addr |-> None]
    /\ heap = {}
    /\ held = {}
    /\ mode = "list"
    /\ iter_next = None
    /\ into_next = None
    /\ out = <<>>
    /\ panicked = FALSE
    /\ op = "default"
    /\ argH = None
    /\ argV = None
    /\ ret = None
    /\ pre = <<>>
    /\ snap = <<>>
    /\ live = {}
    /\ given = [x \in Addr |-> None]
    /\ seen = <<>>
    /\ mru = <<>>

SetMem(M) ==
    /\ head' = M.head
    /\ next' = M.next
    /\ prev' = M.prev
    /\ value' = M.value
    /\ heap' = M.heap

Called(name, h, v, r) ==
    /\ op' = name
    /\ argH' = h
    /\ argV' = v
    /\ ret' = r

\* list.prepend(v); Box::new returns the free address a
Prepend(v, a) ==
    /\ mode = "list" /\ ~panicked
    /\ a \notin heap
    /\ LET r == prepend(Mem, v, a)
       IN /\ SetMem(r.m)
          /\ Called("prepend", None, v, r.ret)
          /\ live' = live \cup {r.ret}
          /\ given' = [given EXCEPT ![r.ret] = v]
          /\ mru' = <<r.ret>> \o mru
    /\ seen' = <<>>
    /\ pre' = Walk(Mem)
    /\ UNCHANGED <<held, mode, iter_next, into_next, out, panicked, snap>>

\* list.remove_ptr(h) with a live handle; the caller keeps the returned box
RemovePtr(h) ==
    /\ mode = "list" /\ ~panicked
    /\ h \in live
    /\ LET r == remove_ptr(Mem, h)
       IN /\ SetMem(r.m)
          /\ Called("remove_ptr", h, None, r.ret)
          /\ held' = held \cup ({r.ret} \ {None})
    /\ live' = live \ {h}
    /\ given' = [given EXCEPT ![h] = None]
    /\ mru' = Without(mru, h)
    /\ seen' = <<>>
    /\ pre' = Walk(Mem)
    /\ UNCHANGED <<mode, iter_next, into_next, out, panicked, snap>>

\* list.move_to_head(h) with a live handle
MoveToHead(h) ==
    /\ mode = "list" /\ ~panicked
    /\ h \in live
    /\ LET r == move_to_head(Mem, h)
       IN /\ SetMem(r.m)
          /\ panicked' = r.panic
    /\ Called("move_to_head", h, None, None)
    /\ mru' = <<h>> \o Without(mru, h)
    /\ seen' = <<>>
    /\ pre' = Walk(Mem)
    /\ UNCHANGED <<held, mode, iter_next, into_next, out, snap, live, given>>

\* the caller drops a box it got from remove_ptr
DropBox(n) ==
    /\ ~panicked
    /\ n \in held
    /\ SetMem(DropChain(Mem, n))
    /\ held' = held \ {n}
    /\ Called("drop", n, None, None)
    /\ pre' = IF mode = "list" THEN <<>> ELSE pre
    /\ UNCHANGED <<mode, iter_next, into_next, out, panicked, snap, live, given,
                   seen, mru>>

\* list.iter() (lib.rs 89-91, 108-112)
Iter ==
    /\ mode = "list" /\ ~panicked
    /\ mode' = "iter"
    /\ iter_next' = None
    /\ out' = <<>>
    /\ Called("iter", None, None, None)
    /\ pre' = Walk(Mem)
    /\ UNCHANGED <<head, next, prev, value, heap, held, into_next, panicked,
                   snap, live, given, seen, mru>>

\* one call of ListIter::next
IterNext ==
    /\ mode = "iter" /\ ~panicked
    /\ LET r == ListIter_next(Mem, iter_next)
       IN /\ iter_next' = r.it
          /\ out' = IF r.ret # None THEN Append(out, r.ret) ELSE out
          /\ Called("iter_next", None, None, r.ret)
    /\ UNCHANGED <<head, next, prev, value, heap, held, mode, into_next,
                   panicked, pre, snap, live, given, seen, mru>>

\* the ListIter goes out of scope, possibly part-way; the borrow ends
IterEnd ==
    /\ mode = "iter" /\ ~panicked
    /\ mode' = "list"
    /\ iter_next' = None
    /\ out' = <<>>
    /\ Called("iter_end", None, None, None)
    /\ pre' = <<>>
    /\ seen' = IF op = "iter_next" /\ ret = None /\ Len(seen) < MaxRuns
               THEN Append(seen, out)
               ELSE seen
    /\ UNCHANGED <<head, next, prev, value, heap, held, into_next, panicked,
                   snap, live, given, mru>>

\* list.into_iter() (lib.rs 99-101, 132-136): self.0 is moved into the iterator
IntoIter ==
    /\ mode = "list" /\ ~panicked
    /\ mode' = "into"
    /\ into_next' = head
    /\ head' = None
    /\ out' = <<>>
    /\ snap' = iter_collect(Mem)
    /\ pre' = Walk(Mem)
    /\ Called("into_iter", None, None, None)
    /\ seen' = <<>>
    /\ UNCHANGED <<next, prev, value, heap, held, iter_next, panicked,
                   live, given, mru>>

\* one call of ListIntoIter::next
IntoNext ==
    /\ mode = "into" /\ ~panicked
    /\ LET r == ListIntoIter_next(Mem, into_next)
       IN /\ SetMem(r.m)
          /\ into_next' = r.it
          /\ out' = IF r.ret # None THEN Append(out, r.ret) ELSE out
          /\ Called("into_next", None, None, r.ret)
    /\ live' = live \ {into_next}
    /\ given' = [x \in Addr |-> IF x = into_next THEN None ELSE given[x]]
    /\ mru' = Without(mru, into_next)
    /\ UNCHANGED <<held, mode, iter_next, panicked, pre, snap, seen>>

\* the ListIntoIter is dropped, and with it the chain it still owns
IntoDrop ==
    /\ mode = "into" /\ ~panicked
    /\ mode' = "gone"
    /\ SetMem(DropChain(Mem, into_next))
    /\ into_next' = None
    /\ live' = live \ Owned(Mem, into_next, MaxNodes)
    /\ given' = [x \in Addr |->
                   IF x \in Owned(Mem, into_next, MaxNodes) THEN None
                   ELSE given[x]]
    /\ out' = <<>>
    /\ snap' = <<>>
    /\ pre' = <<>>
    /\ Called("into_drop", None, None, None)
    /\ mru' = <<>>
    /\ UNCHANGED <<held, iter_next, panicked, seen>>

Next ==
    \/ \E v \in Values, a \in Addr : Prepend(v, a)
    \/ \E h \in Addr : RemovePtr(h)
    \/ \E h \in Addr : MoveToHead(h)
    \/ \E n \in Addr : DropBox(n)
    \/ Iter
    \/ IterNext
    \/ IterEnd
    \/ IntoIter
    \/ IntoNext
    \/ IntoDrop

Spec == Init /\ [][Next]_vars

\* list.remove_ptr(h) called again with the handle of a node that was
\* already removed and whose box the caller still holds (lib.rs 62-65);
\* the caller makes no further call on the list afterwards
StaleRemovePtr(h) ==
    /\ mode = "list" /\ ~panicked
    /\ h \in held
    /\ LET r == remove_ptr(Mem, h)
       IN /\ SetMem(r.m)
          /\ Called("remove_ptr_stale", h, None, r.ret)
          /\ held' = held \cup ({r.ret} \ {None})
    /\ mode' = "violated"
    /\ seen' = <<>>
    /\ pre' = Walk(Mem)
    /\ UNCHANGED <<iter_next, into_next, out, panicked, snap, live, given, mru>>

NextStale ==
    \/ Next
    \/ \E h \in Addr : StaleRemovePtr(h)

SpecStale == Init /\ [][NextStale]_vars

TypeOK ==
    /\ head \in Addr \cup {None}
    /\ next \in [Addr -> Addr \cup {None}]
    /\ prev \in [Addr -> Addr \cup {None}]
    /\ value \in [Addr -> Values \cup {None}]
    /\ heap \subseteq Addr
    /\ held \subseteq Addr
    /\ mode \in {"list", "iter", "into", "gone", "violated"}
    /\ panicked \in BOOLEAN

\* ---------------------------------------------------------------------
\* Properties
\* ---------------------------------------------------------------------

\* the list object exists (it has not been moved into a ListIntoIter)
ListExists == mode \in {"list", "iter"}

\* C1: while the list exists, following the forward links from the head
\* visits exactly the live nodes, each exactly once, and ends at a node
\* whose forward link is absent.
C1_ForwardChainIsLiveSet ==
    ListExists =>
        LET w == Walk(Mem)
        IN /\ Range(w) = live
           /\ Len(w) = Cardinality(live)
           /\ \A i, j \in 1..Len(w) : w[i] = w[j] => i = j
           /\ (w # <<>> => next[w[Len(w)]] = None)
           /\ (w = <<>> => head = None)

C1_Witness ==
    /\ op = "move_to_head"
    /\ held # {}
    /\ Cardinality(live) = 2
    /\ Range(Walk(Mem)) = live
    /\ argH # pre[1]

\* C2: while the list exists, the head's back-reference is absent and the
\* back-reference of every other node of the list is exactly the node
\* whose forward link points to it.
C2_BackReferences ==
    ListExists =>
        LET w == Walk(Mem)
        IN /\ (head # None => prev[head] = None)
           /\ \A i \in 2..Len(w) : prev[w[i]] = w[i - 1]
           /\ \A n \in Range(w) : \A m \in heap :
                 next[m] = n => prev[n] = m

C2_Witness ==
    /\ op = "move_to_head"
    /\ Len(pre) = 3
    /\ argH = pre[2]
    /\ prev[pre[3]] = pre[1]
    /\ prev[pre[1]] = argH

\* C3: prepend(v) on a list with sequence S gives <<v>> \o S: the new node
\* is the head, the old nodes follow in their old order, the length grows
\* by one, and the returned handle is the new head.
C3_PrependPost ==
    [][op' = "prepend" =>
          /\ head' = ret'
          /\ ret' \notin Range(Walk(Mem))
          /\ Walk(Mem') = <<ret'>> \o Walk(Mem)
          /\ iter_collect(Mem') = <<argV'>> \o iter_collect(Mem)
          /\ Len(iter_collect(Mem')) = Len(iter_collect(Mem)) + 1
          /\ value'[ret'] = argV']_vars

C3_Witness ==
    /\ op = "prepend"
    /\ Len(pre) = 2
    /\ head = ret
    /\ Walk(Mem) = <<ret>> \o pre

\* C4: remove_ptr(h) of a node of the list (head, middle, tail or sole)
\* gives the old sequence with exactly that node deleted: one shorter,
\* the others in their old order, and empty if it was the sole node.
C4_RemovePost ==
    [][op' = "remove_ptr" =>
          /\ argH' \in Range(Walk(Mem))
          /\ Walk(Mem') = Without(Walk(Mem), argH')
          /\ Len(Walk(Mem')) = Len(Walk(Mem)) - 1
          /\ iter_collect(Mem') = ValuesOf(Mem, Without(Walk(Mem), argH'))
          /\ (Len(Walk(Mem)) = 1 => head' = None)]_vars

C4_Witness ==
    /\ op = "remove_ptr"
    /\ Len(pre) = 3
    /\ argH = pre[1]
    /\ Walk(Mem) = <<pre[2], pre[3]>>

\* C5: remove_ptr(h) of a live handle returns Some of exactly the node h
\* points to, still allocated and carrying the value given to the prepend
\* that returned h.
C5_RemoveReturnsNode ==
    [][op' = "remove_ptr" =>
          /\ ret' # None
          /\ ret' = argH'
          /\ ret' \in heap'
          /\ value'[ret'] = given[argH']
          /\ value'[ret'] \in Values]_vars

C5_Witness ==
    /\ op = "remove_ptr"
    /\ Len(pre) = 3
    /\ argH = pre[3]
    /\ ret = argH
    /\ value[ret] = 2

\* C6: move_to_head(h) of a live non-head node leaves the same value
\* sequence as remove_ptr(h) followed by prepend of the removed value.
C6_MoveIsRemoveThenPrepend ==
    [][(op' = "move_to_head" /\ argH' # head) =>
          LET r == remove_ptr(Mem, argH')
              v == r.m.value[r.ret]
              M2 == DropChain(r.m, r.ret)
          IN /\ r.ret # None
             /\ \A a \in Addr \ M2.heap :
                   iter_collect(Mem') = iter_collect(prepend(M2, v, a).m)]_vars

C6_Witness ==
    /\ op = "move_to_head"
    /\ Len(pre) = 3
    /\ argH = pre[3]
    /\ Walk(Mem) = <<pre[3], pre[1], pre[2]>>
    /\ value[pre[1]] # value[pre[3]]

\* C7: after move_to_head(h) of a live node the node count is unchanged,
\* h is the head, and h is still a live handle of the same allocated node
\* with the same value.
C7_MovePost ==
    [][op' = "move_to_head" =>
          /\ Len(Walk(Mem')) = Len(Walk(Mem))
          /\ Range(Walk(Mem')) = Range(Walk(Mem))
          /\ head' = argH'
          /\ argH' \in live'
          /\ argH' \in heap' \ held'
          /\ heap' = heap
          /\ value'[argH'] = value[argH']
          /\ value'[argH'] = given'[argH']
          /\ ~panicked']_vars

C7_Witness ==
    /\ op = "move_to_head"
    /\ Len(pre) = 2
    /\ argH = pre[2]
    /\ head = argH
    /\ argH \in live

\* C8: move_to_head with the handle of the current head changes nothing:
\* head link, forward links, back-references and values are as before.
C8_MoveHeadNoOp ==
    [][(op' = "move_to_head" /\ argH' = head) =>
          /\ head' = head
          /\ next' = next
          /\ prev' = prev
          /\ value' = value
          /\ heap' = heap
          /\ iter_collect(Mem') = iter_collect(Mem)]_vars

C8_Witness ==
    /\ op = "move_to_head"
    /\ Len(pre) >= 2
    /\ argH = pre[1]
    /\ Walk(Mem) = pre

\* C9: the consuming iteration yields the values, in order, that the
\* borrowing iteration yields on the list just before it is consumed.
C9_IntoIterMatchesIter ==
    mode = "into" =>
        /\ out \o ValuesOf(Mem, WalkFrom(Mem, into_next, MaxNodes + 1)) = snap
        /\ ((op = "into_next" /\ ret = None) => out = snap)

C9_Witness ==
    /\ mode = "into"
    /\ op = "into_next"
    /\ ret = None
    /\ Len(out) = 3
    /\ out[1] # out[2]
    /\ out = snap

\* C10: a live handle keeps denoting the same allocated node of the list,
\* with the value given at its prepend, across every operation other than
\* remove_ptr on that handle (and consumption of the whole list).
C10_HandleStable ==
    [][\A h \in live :
          (ListExists' /\ ~(op' = "remove_ptr" /\ argH' = h)) =>
              /\ h \in live'
              /\ h \in heap' \ held'
              /\ h \in Range(Walk(Mem'))
              /\ given'[h] = given[h]
              /\ value'[h] = given[h]
              /\ (op' = "prepend" => ret' # h)]_vars

C10_Witness ==
    /\ op = "remove_ptr"
    /\ Len(pre) = 3
    /\ argH = pre[2]
    /\ live = {pre[1], pre[3]}
    /\ \A h \in live : value[h] = given[h] /\ h \in heap \ held

\* the nodes of the list, found by following the forward links
Listed(M) == Range(Walk(M))

\* C11: the set of nodes in the list changes only by prepend adding one
\* fresh node and remove_ptr deleting the node of its handle; move_to_head
\* and borrowing iteration leave that set and every value unchanged.
C11_LiveSetChanges ==
    [][/\ (op' = "prepend" =>
              /\ ret' \notin heap
              /\ Listed(Mem') = Listed(Mem) \cup {ret'}
              /\ Cardinality(Listed(Mem')) = Cardinality(Listed(Mem)) + 1
              /\ \A n \in Listed(Mem) : value'[n] = value[n])
       /\ (op' = "remove_ptr" =>
              /\ argH' \in Listed(Mem)
              /\ Listed(Mem') = Listed(Mem) \ {argH'}
              /\ \A n \in Listed(Mem) : value'[n] = value[n])
       /\ (op' \in {"move_to_head", "iter", "iter_next", "iter_end"} =>
              /\ Listed(Mem') = Listed(Mem)
              /\ heap' = heap
              /\ value' = value)]_vars

C11_Witness ==
    /\ op = "move_to_head"
    /\ Len(pre) = 2
    /\ argH = pre[2]
    /\ Listed(Mem) = Range(pre)
    /\ held # {}

\* the owning links that hold node n: the list's head link and the forward
\* links of allocated nodes
Owners(M, n) ==
    (IF M.head = n THEN {None} ELSE {}) \cup {m \in M.heap : M.next[m] = n}

\* C12: while the list exists every live node is held by exactly one
\* owning link (the head link or one node's forward link), and no
\* allocated node reaches itself through forward links.
C12_SingleOwner ==
    ListExists =>
        /\ \A n \in live : Cardinality(Owners(Mem, n)) = 1
        /\ \A n \in heap : n \notin Owned(Mem, next[n], MaxNodes)

C12_Witness ==
    /\ op = "move_to_head"
    /\ Len(pre) = 3
    /\ argH = pre[2]
    /\ Owners(Mem, argH) = {None}
    /\ Owners(Mem, pre[1]) = {argH}
    /\ Owners(Mem, pre[3]) = {pre[1]}

\* C13: borrowing iteration writes nothing (not the head link, no link, no
\* value), whether it runs to its end or is abandoned part-way; a run to
\* the end yields the finite head-to-tail value sequence, and so do all
\* runs over the same unmodified list.
C13_IterReadOnlyRestartable ==
    [][/\ (op' \in {"iter", "iter_next", "iter_end"} =>
              /\ head' = head
              /\ next' = next
              /\ prev' = prev
              /\ value' = value
              /\ heap' = heap)
       /\ (op' = "iter_next" =>
              /\ Len(out') <= Len(Walk(Mem))
              /\ out' = ValuesOf(Mem, SubSeq(Walk(Mem), 1, Len(out')))
              /\ (ret' = None => out' = ValuesOf(Mem, Walk(Mem)))
              /\ \A i \in 1..Len(seen) : ret' = None => seen[i] = out')
       /\ (op' = "iter_end" =>
              \A i, j \in 1..Len(seen') : seen'[i] = seen'[j])]_vars

C13_Witness ==
    /\ op = "iter_end"
    /\ mode = "list"
    /\ Len(seen) = 2
    /\ seen[1] = seen[2]
    /\ Len(seen[1]) = 3
    /\ seen[1][1] # seen[1][3]

\* C14: with a live handle remove_ptr always yields a node and the unwrap
\* in move_to_head never fails (tail, sole node and two-node list
\* included); the head link is absent exactly when no node is live.
C14_TotalOnLiveHandles ==
    /\ ~panicked
    /\ (ListExists =>
           /\ \A h \in live :
                 /\ remove_ptr(Mem, h).ret # None
                 /\ ~move_to_head(Mem, h).panic
           /\ (head = None <=> live = {}))

C14_Witness ==
    /\ mode = "list"
    /\ op = "move_to_head"
    /\ Len(pre) = 2
    /\ argH = pre[2]
    /\ ~panicked
    /\ \A h \in live : remove_ptr(Mem, h).ret = h
    /\ Cardinality(live) = 2

\* C15: consuming iteration over n nodes yields their n values head to
\* tail and then reports the end; the step that yields a value destroys
\* exactly that node; after k steps the iterator holds exactly the last
\* n - k nodes in their old order; at the end none of the nodes remains.
C15_IntoIterConsumes ==
    [][op' = "into_next" =>
          LET n == Len(pre)
              k == Len(out)
          IN /\ k <= n
             /\ pre' = pre
             /\ IF k < n
                THEN /\ ret' = value[pre[k + 1]]
                     /\ out' = Append(out, ret')
                     /\ pre[k + 1] \in heap
                     /\ heap' = heap \ {pre[k + 1]}
                ELSE /\ ret' = None
                     /\ out' = out
                     /\ heap' = heap
                     /\ into_next' = None
                     /\ Range(pre) \cap heap' = {}
             /\ WalkFrom(Mem', into_next', MaxNodes + 1)
                   = SubSeq(pre, Len(out') + 1, n)
             /\ Range(SubSeq(pre, Len(out') + 1, n)) \subseteq heap'
             /\ Range(SubSeq(pre, 1, Len(out'))) \cap heap' = {}]_vars

C15_Witness ==
    /\ mode = "into"
    /\ op = "into_next"
    /\ Len(pre) = 3
    /\ Len(out) = 2
    /\ into_next = pre[3]
    /\ heap \cap Range(pre) = {pre[3]}

\* C16: while the list exists its head-to-tail order is most recently
\* prepended or promoted first, so the head is the most recently touched
\* live node, also right after the previous head was removed.
C16_MostRecentFirst ==
    ListExists =>
        /\ Walk(Mem) = mru
        /\ (mru # <<>> => head = mru[1])
        /\ (mru = <<>> => head = None)

C16_Witness ==
    /\ op = "remove_ptr"
    /\ Len(pre) = 3
    /\ argH = pre[1]
    /\ mru = <<pre[2], pre[3]>>
    /\ head = pre[2]
    /\ given[pre[2]] # given[pre[3]]

\* C17: each mutating operation changes a constant set of links only.
\* prepend: the head link, the new node, the old head's back-reference.
\* remove_ptr: the target's two links, its predecessor's forward link (or
\* the head link if the target is the head), its successor's
\* back-reference.  move_to_head: those, the old head's back-reference and
\* the head link.  Every other forward link and back-reference, and every
\* value of a node that stays, is as before.
C17_ConstantFrame ==
    [][LET nextChanged == {n \in Addr : next'[n] # next[n]}
           prevChanged == {n \in Addr : prev'[n] # prev[n]}
           valueChanged == {n \in Addr : value'[n] # value[n]}
       IN /\ (op' = "prepend" =>
                 /\ nextChanged \subseteq {ret'}
                 /\ prevChanged \subseteq {ret', head}
                 /\ valueChanged \subseteq {ret'})
          /\ (op' = "remove_ptr" =>
                 /\ nextChanged \subseteq {argH', prev[argH']}
                 /\ prevChanged \subseteq {argH', next[argH']}
                 /\ valueChanged = {}
                 /\ (head' # head => head = argH'))
          /\ (op' = "move_to_head" =>
                 /\ nextChanged \subseteq {argH', prev[argH']}
                 /\ prevChanged \subseteq {argH', next[argH'], head}
                 /\ valueChanged = {})]_vars

C17_Witness ==
    /\ op = "remove_ptr"
    /\ Len(pre) = 3
    /\ argH = pre[3]
    /\ prev[pre[2]] = pre[1]
    /\ next[pre[1]] = pre[2]
    /\ next[pre[2]] = None

\* C18: the node remove_ptr returns for a live handle is fully detached
\* (head with successor, sole node, middle, tail): both its links are
\* absent, and neither the head link nor any link of an allocated node
\* refers to it.
C18_RemovedNodeDetached ==
    [][op' = "remove_ptr" =>
          /\ ret' # None
          /\ next'[ret'] = None
          /\ prev'[ret'] = None
          /\ head' # ret'
          /\ Owned(Mem', ret', MaxNodes) = {ret'}
          /\ \A m \in heap' : next'[m] # ret' /\ prev'[m] # ret']_vars

C18_Witness ==
    /\ op = "remove_ptr"
    /\ Len(pre) = 3
    /\ argH = pre[1]
    /\ ret = argH
    /\ next[ret] = None
    /\ prev[ret] = None
    /\ prev[pre[2]] = None

\* C19: remove_ptr called with the handle of an already removed node that
\* the caller still holds (both links absent) takes the head branch and
\* reports no error: it hands back the list's current head with the whole
\* chain behind it and leaves the list empty (None on an empty list).
C19_StaleRemoveTakesList ==
    [][op' = "remove_ptr_stale" =>
          /\ argH' \in held
          /\ argH' \notin live
          /\ next[argH'] = None
          /\ prev[argH'] = None
          /\ ~panicked'
          /\ ret' = head
          /\ head' = None
          /\ next' = next
          /\ prev' = prev
          /\ value' = value
          /\ heap' = heap
          /\ (head # None =>
                 /\ ret' # argH'
                 /\ Owned(Mem', ret', MaxNodes) = Range(Walk(Mem))
                 /\ WalkFrom(Mem', ret', MaxNodes + 1) = Walk(Mem)
                 /\ Walk(Mem') # Walk(Mem))]_vars

C19_Witness ==
    /\ op = "remove_ptr_stale"
    /\ mode = "violated"
    /\ Len(pre) = 2
    /\ ret = pre[1]
    /\ head = None
    /\ next[ret] = pre[2]
    /\ argH \in held
    /\ ret \in held
====
